---- MODULE Spec2Model ----
(***************************************************************************)
(* A model of MyPaint's setup.py: the pkg-config flag resolver, the build  *)
(* command's sub-command order, the run_build harness, the translation     *)
(* catalog compiler and the script installer.                              *)
(*                                                                         *)
(* Text is modelled as a sequence of one-character strings, a text file as *)
(* a sequence of lines, a path as a sequence of components.                *)
(***************************************************************************)
EXTENDS Integers, Sequences, FiniteSets, TLC

VARIABLES
    pc,                   \* position of the setup script / of the command
    tool,                 \* the installed pkg-config: found, and per query rc + output
    order,                \* iteration order of extra_args_map.items()
    defaults,             \* the keyword arguments pkgconfig() was called with
    kwopts,               \* pkgconfig's kwopts dict while it runs
    qi,                   \* index in `order` of the query pkgconfig runs next
    mypaintlib_opts,      \* the module-level name: <<>> unbound, else <<result>>
    command,              \* the command given on the command line
    default_sub_commands, \* distutils' build.sub_commands (stage names)
    si,                   \* index of the build stage that runs next
    running,              \* a build stage has started and not yet returned
    log,                  \* the call log: <<"start", stage>>, <<"finish", stage>>
    environ,              \* os.environ of the invoker
    child,                \* the launched process: <<>> none, else <<[cmd, env, rc]>>
    dry_run,              \* the command's dry_run option
    platform,             \* <<sys.platform, os.name>>
    msystem,              \* "MSYSTEM" in os.environ
    listing,              \* glob of build_dir: base names of the built scripts
    ii,                   \* index in `listing` of the script installed next
    header,               \* the header formatted for the script at hand
    outfiles,             \* InstallScripts.outfiles
    last,                 \* the last _install_script call: <<>> or <<record>>
    clock,                \* the file system's time
    src_mtime,            \* modification time of po/<lang>.po
    targ_exists,          \* languages whose mypaint.mo exists
    targ_mtime,           \* modification time of an existing mypaint.mo
    po_files,             \* glob of po/*.po: languages in glob order
    ti,                   \* index in `po_files` of the catalog compiled next
    runs,                 \* build_translations runs started so far
    msgfmt_calls,         \* msgfmt invocations of this run, per language
    prev_calls,           \* msgfmt invocations of the run before
    made_dirs,            \* directories this run created with mkpath
    written,              \* targets this run (re)wrote
    data_files,           \* distribution.data_files of this run's process
    fresh                 \* languages handled by a finished pass, source untouched since

pkgVars == <<tool, order, defaults, kwopts, qi, mypaintlib_opts>>
buildVars == <<command, default_sub_commands, si, running, log, environ, child>>

instVars == <<platform, msystem, listing, ii, header, outfiles, last>>
trVars == <<clock, src_mtime, targ_exists, targ_mtime, po_files, ti, runs,
            msgfmt_calls, prev_calls, made_dirs, written, data_files, fresh>>

vars == <<pc, dry_run, pkgVars, buildVars, instVars, trVars>>

None == "None"

----------------------------------------------------------------------------
(* Bounds *)

MaxTokens == 2      \* tokens printed by one pkg-config query
MaxDefaults == 1    \* length of a caller-supplied default list
MaxScripts == 2     \* scripts in build_dir
MaxLines == 2       \* lines of a script
MaxClock == 2       \* last tick of the file system's clock
MaxRuns == 2        \* build_translations runs

----------------------------------------------------------------------------
(* Helpers on sequences *)

Min(a, b) == IF a < b THEN a ELSE b

Range(s) == {s[i] : i \in 1..Len(s)}

SeqsUpTo(S, n) == UNION {[1..k -> S] : k \in 0..n}

----------------------------------------------------------------------------
(* uniq(): order-preserving removal of repeated items *)

RECURSIVE uniq_loop(_, _, _)
uniq_loop(items, seen, result) ==
    IF items = <<>> THEN result
    ELSE IF Head(items) \in seen
         THEN uniq_loop(Tail(items), seen, result)
         ELSE uniq_loop(Tail(items), seen \cup {Head(items)},
                        Append(result, Head(items)))

\* a uniq() that returns its input as it is
uniq_keeps_repeats(items) == items

uniq(items) == uniq_loop(items, {}, <<>>)

----------------------------------------------------------------------------
(* pkgconfig(): the two pkg-config queries merged into the caller's kwargs *)

flag_map ==
    (<<"-", "I">> :> "include_dirs") @@
    (<<"-", "L">> :> "library_dirs") @@
    (<<"-", "l">> :> "libraries")

extra_args_map ==
    ("--libs" :> "extra_link_args") @@ ("--cflags" :> "extra_compile_args")

PcArgs == DOMAIN extra_args_map

\* a slice that keeps the flag's letter: conf_arg[1:]
FlagValue_from_1(conf_arg) == SubSeq(conf_arg, 2, Len(conf_arg))

\* conf_arg[:2] and conf_arg[2:]
Flag(conf_arg) == SubSeq(conf_arg, 1, Min(2, Len(conf_arg)))
FlagValue(conf_arg) == SubSeq(conf_arg, 3, Len(conf_arg))

\* flag_map.get(flag)
FlagKey(flag) == IF flag \in DOMAIN flag_map THEN flag_map[flag] ELSE None

\* kwopts.setdefault(kw, []).append(val)
SetDefaultAppend(kwo, kw, val) ==
    IF kw \in DOMAIN kwo
    THEN [kwo EXCEPT ![kw] = Append(@, val)]
    ELSE kwo @@ (kw :> <<val>>)

\* the body of the inner loop, for one token of one query's output
Classify(kwo, extras_key, conf_arg) ==
    LET flag_key == FlagKey(Flag(conf_arg))
    IN  IF flag_key # None
        THEN SetDefaultAppend(kwo, flag_key, FlagValue(conf_arg))
        ELSE SetDefaultAppend(kwo, extras_key, conf_arg)

RECURSIVE ClassifyAll(_, _, _)
ClassifyAll(kwo, extras_key, conf_args) ==
    IF conf_args = <<>> THEN kwo
    ELSE ClassifyAll(Classify(kwo, extras_key, Head(conf_args)),
                     extras_key, Tail(conf_args))

\* the final loop: kwopts[kw] = uniq(val) for every key
UniqAll(kwo) == [kw \in DOMAIN kwo |-> uniq(kwo[kw])]

\* subprocess.check_output raises OSError when pkg-config is missing and
\* CalledProcessError when it exits non-zero
QueryRaises(t, pc_arg) == ~t.found \/ t.rc[pc_arg] # 0

\* a resolver that skips a query that raised and carries on
PkgQueryFail_skips_query ==
    /\ pc = "pkgconfig"
    /\ qi <= Len(order)
    /\ QueryRaises(tool, order[qi])
    /\ qi' = qi + 1
    /\ UNCHANGED <<pc, tool, order, defaults, kwopts, mypaintlib_opts, buildVars,
                   dry_run, instVars, trVars>>

\* one iteration of the outer loop whose check_output call returns
PkgQuery ==
    /\ pc = "pkgconfig"
    /\ qi <= Len(order)
    /\ ~QueryRaises(tool, order[qi])
    /\ kwopts' = ClassifyAll(kwopts, extra_args_map[order[qi]],
                             tool.out[order[qi]])
    /\ qi' = qi + 1
    /\ UNCHANGED <<pc, tool, order, defaults, mypaintlib_opts, buildVars,
                   dry_run, instVars, trVars>>

\* one iteration whose check_output call raises: the exception leaves
\* pkgconfig() and the setup script, mypaintlib_opts is never bound
PkgQueryFail ==
    /\ pc = "pkgconfig"
    /\ qi <= Len(order)
    /\ QueryRaises(tool, order[qi])
    /\ pc' = "failed"
    /\ UNCHANGED <<tool, order, defaults, kwopts, qi, mypaintlib_opts, buildVars,
                   dry_run, instVars, trVars>>

\* the dedup loop and the return to the module-level assignment
PkgReturn ==
    /\ pc = "pkgconfig"
    /\ qi > Len(order)
    /\ kwopts' = UniqAll(kwopts)
    /\ mypaintlib_opts' = <<kwopts'>>
    /\ pc' = "setup"
    /\ UNCHANGED <<tool, order, defaults, qi, buildVars,
                   dry_run, instVars, trVars>>

----------------------------------------------------------------------------
(* Inputs of the flag resolver *)

Tokens == {
    <<"-", "I", "a">>,
    <<"-", "L", "a">>,
    <<"-", "l", "X">>,
    <<"-", "W", "a">> }

Outputs == SeqsUpTo(Tokens, MaxTokens)

Orders == {<<"--libs", "--cflags">>, <<"--cflags", "--libs">>}

\* every pkg-config the script can meet: missing, or answering each query
\* with an exit status and a list of tokens
Tools ==
    {[found |-> TRUE, rc |-> r, out |-> o] :
        r \in [PcArgs -> {0, 1}],
        o \in [PcArgs -> Outputs]}
    \cup {[found |-> FALSE, rc |-> [a \in PcArgs |-> 0],
           out |-> [a \in PcArgs |-> <<>>]]}

DefaultKeys == {"include_dirs", "extra_compile_args"}

DefaultValues(kw) ==
    IF kw = "include_dirs" THEN {<<"a">>} ELSE {<<"-", "W", "a">>}

\* the keyword arguments of a call: some of the categories, each with a list
Kwargs ==
    UNION {{f \in [P -> SeqsUpTo(UNION {DefaultValues(kw) : kw \in DefaultKeys},
                                  MaxDefaults)] :
                \A kw \in P : Range(f[kw]) \subseteq DefaultValues(kw)} :
           P \in SUBSET DefaultKeys}

\* the test stub of the specification's end-to-end example
ExampleOutput == <<
    <<"-", "I", "/", "i", "n", "c">>,
    <<"-", "L", "/", "l", "i", "b">>,
    <<"-", "l", "X">> >>

ExampleTool ==
    [found |-> TRUE, rc |-> [a \in PcArgs |-> 0],
     out |-> [a \in PcArgs |-> ExampleOutput]]

\* the flag resolver at rest
PkgIdle ==
    /\ tool = [found |-> FALSE]
    /\ order = <<>>
    /\ defaults = <<>>
    /\ kwopts = <<>>
    /\ qi = 1
    /\ mypaintlib_opts = <<>>

\* the script installer at rest
InstIdle ==
    /\ platform = <<"linux2", "posix">>
    /\ msystem = FALSE
    /\ listing = <<>>
    /\ ii = 1
    /\ header = <<>>
    /\ outfiles = <<>>
    /\ last = <<>>

\* the translation compiler at rest
TransIdle ==
    /\ clock = 0
    /\ src_mtime = <<>>
    /\ targ_exists = {}
    /\ targ_mtime = <<>>
    /\ po_files = <<>>
    /\ ti = 1
    /\ runs = 0
    /\ msgfmt_calls = <<>>
    /\ prev_calls = <<>>
    /\ made_dirs = {}
    /\ written = {}
    /\ data_files = <<>>
    /\ fresh = {}

\* the build and launch machinery at rest
BuildIdle ==
    /\ command = "build"
    /\ default_sub_commands = <<>>
    /\ si = 1
    /\ running = FALSE
    /\ log = <<>>
    /\ environ = <<>>
    /\ child = <<>>

InitPkg ==
    /\ pc = "pkgconfig"
    /\ tool \in Tools \cup {ExampleTool}
    /\ order \in Orders
    /\ defaults \in Kwargs
    /\ kwopts = defaults
    /\ qi = 1
    /\ mypaintlib_opts = <<>>
    /\ BuildIdle
    /\ dry_run = FALSE
    /\ InstIdle
    /\ TransIdle

NextPkg == PkgQuery \/ PkgQueryFail \/ PkgReturn

SpecPkg == InitPkg /\ [][NextPkg]_vars

---------------------------------------------------------------------------------------------------------------------------------------------------
(* The build command and the run_build / testdrive harness *)

\* a Build.sub_commands that appends build_translations and reorders nothing
sub_commands_in_default_order(dflt) == dflt \o <<"build_translations">>

\* Build.sub_commands, from distutils' list
sub_commands(dflt) ==
    SelectSeq(dflt, LAMBDA a : a = "build_ext")
    \o SelectSeq(dflt, LAMBDA a : a # "build_ext")
    \o <<"build_translations">>

\* the predicates of the sub-commands, as the arguments of setup() decide
\* them: packages, ext_modules and scripts are given, libraries are not;
\* build_translations is registered with predicate None
HasWork(a) == a # "build_clib"

\* build.get_sub_commands(): the stages build.run() runs, in order
Stages == SelectSeq(sub_commands(default_sub_commands), HasWork)

\* os.path.abspath of a path given by its components
cwd == <<"/", "src", "mypaint">>
abspath(p) == IF p # <<>> /\ Head(p) = "/" THEN p ELSE cwd \o p

\* the finalized build command's directories
build_lib == <<"build", "lib.plat">>
build_purelib == <<"build", "lib">>
build_platlib == <<"build", "lib.plat">>
build_scripts == <<"build", "scripts">>

\* an environment that puts the build tree before the inherited search path
child_env_prepending(env) ==
    LET old == IF "PYTHONPATH" \in DOMAIN env THEN env["PYTHONPATH"] ELSE <<>>
        new == <<abspath(build_lib), abspath(build_purelib),
                 abspath(build_platlib)>> \o old
    IN  [k \in DOMAIN env \cup {"PYTHONPATH"} |->
            IF k = "PYTHONPATH" THEN new ELSE env[k]]

\* env = os.environ.copy(); env["PYTHONPATH"] = os.path.pathsep.join([...])
\* (a joined search path is modelled as the sequence of its entries)
child_env(env) ==
    LET new == <<abspath(build_lib), abspath(build_purelib),
                 abspath(build_platlib)>>
    IN  [k \in DOMAIN env \cup {"PYTHONPATH"} |->
            IF k = "PYTHONPATH" THEN new ELSE env[k]]

\* setup() dispatches the command; both commands begin with build.run()
Setup ==
    /\ pc = "setup"
    /\ pc' = "build"
    /\ si' = 1
    /\ UNCHANGED <<pkgVars, command, default_sub_commands, running, log,
                   environ, child,
                   dry_run, instVars, trVars>>

\* build.run() calls run_command on the next stage
StageStart ==
    /\ pc = "build"
    /\ ~running
    /\ si <= Len(Stages)
    /\ running' = TRUE
    /\ log' = Append(log, <<"start", Stages[si]>>)
    /\ UNCHANGED <<pc, pkgVars, command, default_sub_commands, si, environ,
                   child,
                   dry_run, instVars, trVars>>

\* the stage returns
StageFinish ==
    /\ pc = "build"
    /\ running
    /\ running' = FALSE
    /\ log' = Append(log, <<"finish", Stages[si]>>)
    /\ si' = si + 1
    /\ UNCHANGED <<pc, pkgVars, command, default_sub_commands, environ, child,
                   dry_run, instVars, trVars>>

\* the stage raises: the exception leaves build.run() and the command
StageFail ==
    /\ pc = "build"
    /\ running
    /\ running' = FALSE
    /\ pc' = "error"
    /\ UNCHANGED <<pkgVars, command, default_sub_commands, si, log, environ,
                   child,
                   dry_run, instVars, trVars>>

\* build.run() returns: the build command is over, RunBuild.run goes on
BuildReturn ==
    /\ pc = "build"
    /\ ~running
    /\ si > Len(Stages)
    /\ pc' = IF command = "build" THEN "done" ELSE "launch"
    /\ UNCHANGED <<pkgVars, buildVars,
                   dry_run, instVars, trVars>>

\* RunBuild.run: subprocess.check_call starts the built script
Launch ==
    /\ pc = "launch"
    /\ child' = <<[cmd |-> <<build_scripts \o <<"mypaint.py">>>>,
                   env |-> child_env(environ),
                   rc |-> None]>>
    /\ pc' = "waiting"
    /\ UNCHANGED <<pkgVars, command, default_sub_commands, si, running, log,
                   environ,
                   dry_run, instVars, trVars>>

\* check_call returns when the process has exited, and raises
\* CalledProcessError unless it exited with 0
ChildExit ==
    /\ pc = "waiting"
    /\ \E rc \in {"0", "1"} :
        /\ child' = <<[child[1] EXCEPT !.rc = rc]>>
        /\ pc' = IF rc = "0" THEN "done" ELSE "error"
    /\ UNCHANGED <<pkgVars, command, default_sub_commands, si, running, log,
                   environ,
                   dry_run, instVars, trVars>>

DefaultStages == {"build_py", "build_clib", "build_ext", "build_scripts"}

\* every order distutils could list its four stages in
DefaultOrders ==
    {s \in [1..Cardinality(DefaultStages) -> DefaultStages] :
        Range(s) = DefaultStages}

Commands == {"build", "run_build", "testdrive"}

Environs ==
    {[HOME |-> <<"/", "home">>]}
    \cup {[HOME |-> <<"/", "home">>, PYTHONPATH |-> p] :
            p \in {<<>>, << <<"/", "site">> >>}}

\* the keyword arguments of the module-level call, with and without the
\* arguments added when sys.platform is not darwin
MypaintlibKwargs ==
    {[include_dirs |-> << <<"n", "u", "m", "p", "y">> >>,
      extra_link_args |-> l,
      extra_compile_args |-> << <<"-", "W", "a", "l", "l">>, <<"-", "g">> >> \o l] :
     l \in {<<>>, << <<"-", "f", "o", "p", "e", "n", "m", "p">> >>}}

SetupTools ==
    {t \in Tools : \A a \in PcArgs : t.out[a] \in {<<>>, << <<"-", "I", "a">> >>}}

Init ==
    /\ pc = "pkgconfig"
    /\ tool \in SetupTools
    /\ order \in Orders
    /\ defaults \in MypaintlibKwargs
    /\ kwopts = defaults
    /\ qi = 1
    /\ mypaintlib_opts = <<>>
    /\ command \in Commands
    /\ default_sub_commands \in DefaultOrders
    /\ si = 1
    /\ running = FALSE
    /\ log = <<>>
    /\ environ \in Environs
    /\ child = <<>>
    /\ dry_run = FALSE
    /\ InstIdle
    /\ TransIdle

Next ==
    \/ PkgQuery
    \/ PkgQueryFail
    \/ PkgReturn
    \/ Setup
    \/ StageStart
    \/ StageFinish
    \/ StageFail
    \/ BuildReturn
    \/ Launch
    \/ ChildExit

Spec == Init /\ [][Next]_vars

----------------------------------------------------------------------------
(* InstallScripts: header injection, suffix removal, executable bits *)

StartsWith(s, p) == Len(s) >= Len(p) /\ SubSeq(s, 1, Len(p)) = p

EndsWith(s, p) ==
    Len(s) >= Len(p) /\ SubSeq(s, Len(s) - Len(p) + 1, Len(s)) = p

\* str.rstrip(): trailing white space (and the line end) removed
RECURSIVE rstrip(_)
rstrip(line) ==
    IF line # <<>> /\ line[Len(line)] = " "
    THEN rstrip(SubSeq(line, 1, Len(line) - 1))
    ELSE line

\* a|b and a&b on non-negative integers
RECURSIVE BitOr(_, _)
BitOr(a, b) ==
    IF a = 0 THEN b
    ELSE IF b = 0 THEN a
    ELSE (IF a % 2 = 1 \/ b % 2 = 1 THEN 1 ELSE 0) + 2 * BitOr(a \div 2, b \div 2)

RECURSIVE BitAnd(_, _)
BitAnd(a, b) ==
    IF a = 0 \/ b = 0 THEN 0
    ELSE (IF a % 2 = 1 /\ b % 2 = 1 THEN 1 ELSE 0) + 2 * BitAnd(a \div 2, b \div 2)

RX_ALL == 365        \* 0o555
PERM_MASK == 4095    \* 0o7777

\* a mode that is set to r-xr-xr-x instead of having it added
new_mode_overwrites(st_mode) == BitAnd(RX_ALL, PERM_MASK)

\* mode = ((os.stat(targ).st_mode) | 0o555) & 0o7777
new_mode(st_mode) == BitAnd(BitOr(st_mode, RX_ALL), PERM_MASK)

\* a strip_ext with the test of the marker turned round
strip_ext_when_marker_absent(plat, marker) ==
    ~(plat[1] = "win32" /\ marker)

\* strip_ext: True, unless sys.platform is win32 and MSYSTEM is not set
strip_ext(plat, marker) == ~(plat[1] = "win32" /\ ~marker)

\* the installed base name
targ_basename(name, strip) ==
    IF strip /\ EndsWith(name, <<".", "p", "y">>)
    THEN SubSeq(name, 1, Len(name) - 3)
    ELSE name

\* in_fp.readline().rstrip(): an exhausted file reads as the empty string
first_line(lines) == rstrip(IF lines = <<>> THEN <<>> ELSE Head(lines))

\* the lines in_fp.readlines() returns after the first readline()
rest_lines(lines) == IF lines = <<>> THEN <<>> ELSE Tail(lines)

\* lib.meta's release information, opaque text
relinfo_script == << <<"MYPAINT_VERSION=1.3.0-alpha">> >>

\* header_tmpl.format(...) as print() writes it: the template starts and
\* ends with a line end, and print() adds one more
header_of(name) ==
    << <<>>,
       <<"#">>,
       <<"# ***DO NOT EDIT THIS FILE***: edit ">> \o name \o <<" instead.">>,
       <<"#">>,
       <<"# Auto-generated version info follows.">> >>
    \o relinfo_script
    \o << <<>> >>

\* a writer that copies the remaining lines as they are
written_lines_unstripped(lines, hdr) ==
    LET line == first_line(lines)
    IN  (IF StartsWith(line, <<"#", "!">>)
         THEN <<line>> \o hdr
         ELSE hdr \o <<line>>)
        \o rest_lines(lines)

\* what the with-block prints to out_fp
written_lines(lines, hdr) ==
    LET line == first_line(lines)
        rest == rest_lines(lines)
    IN  (IF StartsWith(line, <<"#", "!">>)
         THEN <<line>> \o hdr
         ELSE hdr \o <<line>>)
        \o [i \in 1..Len(rest) |-> rstrip(rest[i])]

\* set_mode after the with-block
set_mode(plat, lines) ==
    StartsWith(first_line(lines), <<"#", "!">>) /\ plat[2] = "posix"

\* Inputs of the script installer

Platforms ==
    {<<"linux2", "posix">>, <<"darwin", "posix">>, <<"win32", "nt">>}

Names == {
    <<"a", ".", "p", "y">>,
    <<"b">>,
    <<"c", "p", "y">>,
    <<"d", ".", "p", "y", "c">> }

SourceLines == {
    <<"#", "!", "p">>,
    <<"#", "!", "p", " ">>,
    <<"x">>,
    <<"x", " ", " ">>,
    <<>> }

\* regular files: S_IFREG with some permission bits, some of them above 0o777
StModes == {32768 + p : p \in {420, 384, 2496, 128}}

Listings ==
    {l \in SeqsUpTo(Names, MaxScripts) : l # <<>> /\ \A i, j \in 1..Len(l) :
        l[i] = l[j] => i = j}

\* InstallScripts.run up to its loop
InstallBegin ==
    /\ pc = "install_scripts"
    /\ outfiles' = <<>>
    /\ pc' = "install_loop"
    /\ UNCHANGED <<dry_run, pkgVars, buildVars, platform, msystem, listing,
                   ii, header, last, trVars>>

\* the loop takes the next script of build_dir and formats its header
InstallHeader ==
    /\ pc = "install_loop"
    /\ ii <= Len(listing)
    /\ header' = header_of(listing[ii])
    /\ last' = <<>>
    /\ pc' = "install_call"
    /\ UNCHANGED <<dry_run, pkgVars, buildVars, platform, msystem, listing,
                   ii, outfiles, trVars>>

\* _install_script(src, header) and the extension of outfiles with what it
\* returns. `lines` is what the source holds, `st_mode` what os.stat reports
\* for the target once it has been opened for writing
InstallScript ==
    /\ pc = "install_call"
    /\ LET src == listing[ii]
           targ == targ_basename(src, strip_ext(platform, msystem))
       IN  \/ /\ dry_run
              /\ last' = <<[src |-> src, targ |-> targ, wrote |-> FALSE,
                            lines |-> <<>>, out |-> <<>>, chmod |-> FALSE,
                            old_mode |-> 0, mode |-> 0]>>
              /\ outfiles' = outfiles
           \/ /\ ~dry_run
              /\ \E lines \in SeqsUpTo(SourceLines, MaxLines), st_mode \in StModes :
                    last' = <<[src |-> src, targ |-> targ, wrote |-> TRUE,
                               lines |-> lines,
                               out |-> written_lines(lines, header),
                               chmod |-> set_mode(platform, lines),
                               old_mode |-> st_mode,
                               mode |-> IF set_mode(platform, lines)
                                        THEN new_mode(st_mode)
                                        ELSE st_mode]>>
              /\ outfiles' = Append(outfiles, targ)
    /\ ii' = ii + 1
    /\ pc' = "install_loop"
    /\ UNCHANGED <<dry_run, pkgVars, buildVars, platform, msystem,
                   listing, header, trVars>>

\* open() or chmod() raises: the command ends with the scripts installed so far
InstallFail ==
    /\ pc = "install_call"
    /\ ~dry_run
    /\ pc' = "error"
    /\ UNCHANGED <<dry_run, pkgVars, buildVars, instVars, trVars>>

InstallEnd ==
    /\ pc = "install_loop"
    /\ ii > Len(listing)
    /\ pc' = "done"
    /\ UNCHANGED <<dry_run, pkgVars, buildVars, instVars, trVars>>

InitInstall ==
    /\ pc = "install_scripts"
    /\ dry_run \in BOOLEAN
    /\ platform \in Platforms
    /\ msystem \in BOOLEAN
    /\ listing \in Listings
    /\ ii = 1
    /\ header = <<>>
    /\ outfiles = <<>>
    /\ last = <<>>
    /\ PkgIdle
    /\ BuildIdle
    /\ TransIdle

NextInstall ==
    \/ InstallBegin
    \/ InstallHeader
    \/ InstallScript
    \/ InstallFail
    \/ InstallEnd

SpecInstall == InitInstall /\ [][NextInstall]_vars

----------------------------------------------------------------------------
(* BuildTranslations: incremental compilation of po/<lang>.po *)

\* build.build_temp
build_temp == <<"build", "temp">>

\* targ_dir, targ and install_dir of a language
targ_dir(lang) == build_temp \o <<"locale", lang, "LC_MESSAGES">>
targ(lang) == targ_dir(lang) \o <<"mypaint.mo">>
install_dir(lang) == <<"locale", lang, "LC_MESSAGES">>

\* a staleness test that also rebuilds a target as old as its source
needs_update_when_not_newer(lang) ==
    ~(lang \in targ_exists /\ targ_mtime[lang] > src_mtime[lang])

\* needs_update, once the two tests of the target have been made
needs_update(lang) ==
    ~(lang \in targ_exists /\ targ_mtime[lang] >= src_mtime[lang])

\* a run() that extends data_files whatever dry_run says
extended_in_dry_run_too(dry, files, new) == files \o new

\* run(): if not self.dry_run: self.distribution.data_files.extend(data_files)
extended(dry, files, new) == IF ~dry THEN files \o new ELSE files

\* data_files as the setup script passes it to setup()
SetupDataFiles == << <<<<"appdata">>, <<<<"desktop", "mypaint.appdata.xml">>>>>> >>

Langs == {"de", "fr"}

ZeroCalls == [l \in Langs |-> 0]

\* a new process runs build_translations
TransBegin ==
    /\ pc \in {"idle", "done", "error", "assert_failed"}
    /\ runs < MaxRuns
    /\ runs' = runs + 1
    /\ dry_run' \in BOOLEAN
    /\ pc' = "build_translations"
    /\ ti' = 1
    /\ prev_calls' = msgfmt_calls
    /\ msgfmt_calls' = ZeroCalls
    /\ made_dirs' = {}
    /\ written' = {}
    /\ data_files' = SetupDataFiles
    /\ UNCHANGED <<pkgVars, buildVars, instVars, clock, src_mtime,
                   targ_exists, targ_mtime, po_files, fresh>>

\* one pass of run()'s loop in which nothing raises: the catalog is
\* compiled if it needs to be, and registered
CompileCatalog ==
    /\ pc = "build_translations"
    /\ ti <= Len(po_files)
    /\ LET lang == po_files[ti]
           entry == << <<install_dir(lang), <<targ(lang)>>>> >>
       IN  IF needs_update(lang)
           THEN IF dry_run
                THEN \* "would run": return []
                     /\ data_files' = extended(dry_run, data_files, <<>>)
                     /\ UNCHANGED <<targ_exists, targ_mtime, msgfmt_calls,
                                    made_dirs, written, fresh>>
                ELSE \* mkpath, msgfmt writes the target, the assert holds
                     /\ made_dirs' = made_dirs \cup {targ_dir(lang)}
                     /\ msgfmt_calls' =
                            [msgfmt_calls EXCEPT ![lang] = @ + 1]
                     /\ targ_exists' = targ_exists \cup {lang}
                     /\ targ_mtime' = [targ_mtime EXCEPT ![lang] = clock]
                     /\ written' = written \cup {lang}
                     /\ data_files' = extended(dry_run, data_files, entry)
                     /\ fresh' = fresh \cup {lang}
           ELSE \* up to date: the assert holds, the entry is returned
                /\ data_files' = extended(dry_run, data_files, entry)
                /\ fresh' = IF dry_run THEN fresh ELSE fresh \cup {lang}
                /\ UNCHANGED <<targ_exists, targ_mtime, msgfmt_calls,
                               made_dirs, written>>
    /\ ti' = ti + 1
    /\ UNCHANGED <<pc, dry_run, pkgVars, buildVars, instVars, clock,
                   src_mtime, po_files, runs, prev_calls>>

\* a pass in which msgfmt is run and exits non-zero: check_call raises
MsgfmtFails ==
    /\ pc = "build_translations"
    /\ ti <= Len(po_files)
    /\ needs_update(po_files[ti])
    /\ ~dry_run
    /\ made_dirs' = made_dirs \cup {targ_dir(po_files[ti])}
    /\ msgfmt_calls' = [msgfmt_calls EXCEPT ![po_files[ti]] = @ + 1]
    /\ pc' = "error"
    /\ UNCHANGED <<dry_run, pkgVars, buildVars, instVars, clock, src_mtime,
                   targ_exists, targ_mtime, po_files, ti, runs, prev_calls,
                   written, data_files, fresh>>

\* a pass in which msgfmt exits with 0 and leaves no target: the assert fires
MsgfmtWritesNothing ==
    /\ pc = "build_translations"
    /\ ti <= Len(po_files)
    /\ needs_update(po_files[ti])
    /\ ~dry_run
    /\ po_files[ti] \notin targ_exists
    /\ made_dirs' = made_dirs \cup {targ_dir(po_files[ti])}
    /\ msgfmt_calls' = [msgfmt_calls EXCEPT ![po_files[ti]] = @ + 1]
    /\ pc' = "assert_failed"
    /\ UNCHANGED <<dry_run, pkgVars, buildVars, instVars, clock, src_mtime,
                   targ_exists, targ_mtime, po_files, ti, runs, prev_calls,
                   written, data_files, fresh>>

\* run() returns
TransEnd ==
    /\ pc = "build_translations"
    /\ ti > Len(po_files)
    /\ pc' = "done"
    /\ UNCHANGED <<dry_run, pkgVars, buildVars, instVars, trVars>>

\* somebody edits a translation source
ModifySource ==
    /\ \E lang \in Langs :
        /\ src_mtime' = [src_mtime EXCEPT ![lang] = clock]
        /\ fresh' = fresh \ {lang}
    /\ UNCHANGED <<pc, dry_run, pkgVars, buildVars, instVars, clock,
                   targ_exists, targ_mtime, po_files, ti, runs, msgfmt_calls,
                   prev_calls, made_dirs, written, data_files>>

\* time passes
Tick ==
    /\ clock < MaxClock
    /\ clock' = clock + 1
    /\ UNCHANGED <<pc, dry_run, pkgVars, buildVars, instVars, src_mtime,
                   targ_exists, targ_mtime, po_files, ti, runs, msgfmt_calls,
                   prev_calls, made_dirs, written, data_files, fresh>>

InitTrans ==
    /\ pc = "idle"
    /\ dry_run = FALSE
    /\ clock = 0
    /\ src_mtime = [l \in Langs |-> 0]
    /\ targ_exists \in SUBSET Langs
    /\ targ_mtime = [l \in Langs |-> 0]
    /\ po_files \in {s \in [1..Cardinality(Langs) -> Langs] : Range(s) = Langs}
    /\ ti = 1
    /\ runs = 0
    /\ msgfmt_calls = ZeroCalls
    /\ prev_calls = ZeroCalls
    /\ made_dirs = {}
    /\ written = {}
    /\ data_files = SetupDataFiles
    /\ fresh = {}
    /\ PkgIdle
    /\ BuildIdle
    /\ InstIdle

NextTrans ==
    \/ TransBegin
    \/ CompileCatalog
    \/ MsgfmtFails
    \/ MsgfmtWritesNothing
    \/ TransEnd
    \/ ModifySource
    \/ Tick

SpecTrans == InitTrans /\ [][NextTrans]_vars

-----
(* What the claims say of the flag resolver, stated without pkgconfig()'s  *)
(* own operators                                                           *)

NoRepeats(s) == \A i, j \in 1..Len(s) : s[i] = s[j] => i = j

FirstIndex(s, x) == CHOOSE i \in 1..Len(s) :
    s[i] = x /\ \A j \in 1..(i - 1) : s[j] # x

\* r holds each distinct element of s once, in the order of first occurrence
IsUniqOf(r, s) ==
    /\ NoRepeats(r)
    /\ Range(r) = Range(s)
    /\ \A i, j \in 1..Len(r) :
          i < j => FirstIndex(s, r[i]) < FirstIndex(s, r[j])

HasPrefix(tok, letter) == Len(tok) >= 2 /\ tok[1] = "-" /\ tok[2] = letter

CategoryOf(pc_arg, tok) ==
    IF HasPrefix(tok, "I") THEN "include_dirs"
    ELSE IF HasPrefix(tok, "L") THEN "library_dirs"
    ELSE IF HasPrefix(tok, "l") THEN "libraries"
    ELSE IF pc_arg = "--libs" THEN "extra_link_args"
    ELSE "extra_compile_args"

StoredAs(tok) ==
    IF HasPrefix(tok, "I") \/ HasPrefix(tok, "L") \/ HasPrefix(tok, "l")
    THEN [i \in 1..(Len(tok) - 2) |-> tok[i + 2]]
    ELSE tok

\* the values one query contributes to one category, in the tool's order
Contribution(pc_arg, kw) ==
    LET mine == SelectSeq(tool.out[pc_arg],
                          LAMBDA tok : CategoryOf(pc_arg, tok) = kw)
    IN  [i \in 1..Len(mine) |-> StoredAs(mine[i])]

DefaultOf(kw) == IF kw \in DOMAIN defaults THEN defaults[kw] ELSE <<>>

\* everything that was put in a category: defaults, then the queries in turn
Gathered(kw) ==
    DefaultOf(kw) \o Contribution(order[1], kw) \o Contribution(order[2], kw)

Resolved == mypaintlib_opts[1]

TouchedCategories ==
    UNION {{CategoryOf(a, tool.out[a][i]) : i \in 1..Len(tool.out[a])} :
           a \in PcArgs}

\* C6: every category list pkgconfig returns holds each distinct value once,
\* in first-occurrence order with the caller's defaults first, whatever
\* repeats the tool or the defaults contain; uniq([a, b, a, c, b]) is
\* [a, b, c].
C6_NoDuplicatesFirstSeenOrder ==
    /\ uniq(<<"a", "b", "a", "c", "b">>) = <<"a", "b", "c">>
    /\ pc = "setup" =>
        \A kw \in DOMAIN Resolved :
            /\ IsUniqOf(Resolved[kw], Gathered(kw))
            /\ LET n == Cardinality(Range(DefaultOf(kw)))
               IN  IsUniqOf(SubSeq(Resolved[kw], 1, n), DefaultOf(kw))

\* a resolution in which the tool repeats a token and also reports a value
\* that the caller's defaults already hold
C6_Witness ==
    /\ pc = "setup"
    /\ \E kw \in DOMAIN Resolved :
        /\ DefaultOf(kw) # <<>>
        /\ \E a \in PcArgs : \E i \in 1..Len(Contribution(a, kw)) :
              Contribution(a, kw)[i] \in Range(DefaultOf(kw))
    /\ \E a \in PcArgs : ~NoRepeats(tool.out[a])

\* C7: a token starting with -I, -L or -l is stored without the prefix under
\* include_dirs, library_dirs or libraries, whichever query printed it; any
\* other token is stored verbatim under extra_link_args (--libs) or
\* extra_compile_args (--cflags); nothing else is stored. The stub printing
\* "-I/inc -L/lib -lX" with no defaults gives /inc, /lib and X.
C7_TokensClassifiedByPrefix ==
    pc = "setup" =>
        /\ DOMAIN Resolved = DOMAIN defaults \cup TouchedCategories
        /\ \A a \in PcArgs : \A i \in 1..Len(tool.out[a]) :
              LET tok == tool.out[a][i]
              IN  StoredAs(tok) \in Range(Resolved[CategoryOf(a, tok)])
        /\ \A kw \in DOMAIN Resolved : Range(Resolved[kw]) = Range(Gathered(kw))
        /\ (tool = ExampleTool /\ defaults = <<>>) =>
              /\ Resolved["include_dirs"] = << <<"/", "i", "n", "c">> >>
              /\ Resolved["library_dirs"] = << <<"/", "l", "i", "b">> >>
              /\ Resolved["libraries"] = << <<"X">> >>

\* the specification's example, resolved
C7_Witness ==
    /\ pc = "setup"
    /\ tool = ExampleTool
    /\ defaults = <<>>
    /\ Resolved["libraries"] = << <<"X">> >>

----------------------------------------------------------------------------
(* What the claims say of the build order and of the harness *)

\* every e2 in the call log has an e1 before it
Before(e1, e2) ==
    \A j \in 1..Len(log) : log[j] = e2 => \E i \in 1..(j - 1) : log[i] = e1

Occurrences(s, x) == Cardinality({i \in 1..Len(s) : s[i] = x})

\* C1: in every run of build, build_ext has finished before any other stage
\* starts, every default stage has finished before build_translations
\* starts, build_translations is the last stage, and the reordered list
\* holds every default stage exactly once.
C1_StageOrder ==
    /\ LET sc == sub_commands(default_sub_commands)
       IN  /\ Len(sc) = Len(default_sub_commands) + 1
           /\ sc[Len(sc)] = "build_translations"
           /\ \A a \in DefaultStages \cup {"build_translations"} :
                 Occurrences(sc, a) = 1
    /\ \A a \in (DefaultStages \cup {"build_translations"}) \ {"build_ext"} :
          Before(<<"finish", "build_ext">>, <<"start", a>>)
    /\ \A a \in DefaultStages :
          /\ \A i, j \in 1..Len(log) :
                (log[i] = <<"start", a>>
                    /\ log[j] = <<"start", "build_translations">>) => i < j
          /\ HasWork(a) =>
                Before(<<"finish", a>>, <<"start", "build_translations">>)
    /\ \A i, j \in 1..Len(log) :
          (log[i] = <<"start", "build_translations">> /\ i < j)
              => log[j] = <<"finish", "build_translations">>
    /\ \A a \in DefaultStages \cup {"build_translations"} :
          Occurrences(log, <<"start", a>>) <= 1
    /\ (pc = "done" /\ command = "build") =>
          /\ log[Len(log)] = <<"finish", "build_translations">>
          /\ \A a \in DefaultStages :
                HasWork(a) => Occurrences(log, <<"finish", a>>) = 1

\* a full build that ran to its end from a default list that puts build_py
\* before build_ext
C1_Witness ==
    /\ pc = "done"
    /\ command = "build"
    /\ default_sub_commands[1] = "build_py"
    /\ default_sub_commands[3] = "build_ext"
    /\ log[Len(log)] = <<"finish", "build_translations">>

ToolFails == ~tool.found \/ \E a \in PcArgs : tool.rc[a] # 0

\* C8: when pkg-config is missing or one of its two queries exits non-zero,
\* pkgconfig raises, no flag set is ever returned (mypaintlib_opts stays
\* unbound), and no build stage starts and nothing is launched.
C8_ResolverFailureIsFatal ==
    /\ pc = "failed" => ToolFails
    /\ ToolFails =>
          /\ mypaintlib_opts = <<>>
          /\ log = <<>>
          /\ child = <<>>
          /\ ~running
          /\ pc \in {"pkgconfig", "failed"}

\* the second query failed after the first one had already added flags
C8_Witness ==
    /\ pc = "failed"
    /\ qi = 2
    /\ kwopts # defaults
    /\ tool.found

ThreeLibDirs ==
    <<cwd \o build_lib, cwd \o build_purelib, cwd \o build_platlib>>

InvokerPath ==
    IF "PYTHONPATH" \in DOMAIN environ THEN environ["PYTHONPATH"] ELSE <<>>

BuildSucceeded ==
    /\ Len(log) = 2 * Len(Stages)
    /\ \A k \in 1..Len(Stages) :
          /\ log[2 * k - 1] = <<"start", Stages[k]>>
          /\ log[2 * k] = <<"finish", Stages[k]>>

LaunchedAfterBuildAndAwaited ==
    /\ child # <<>> =>
          /\ command \in {"run_build", "testdrive"}
          /\ BuildSucceeded
          /\ child[1].cmd = << <<"build", "scripts", "mypaint.py">> >>
          /\ DOMAIN child[1].env = DOMAIN environ \cup {"PYTHONPATH"}
          /\ \A k \in DOMAIN environ \ {"PYTHONPATH"} :
                child[1].env[k] = environ[k]
          /\ child[1].rc = None <=> pc = "waiting"
          /\ child[1].rc = "0" <=> pc = "done"
          /\ child[1].rc = "1" <=> pc = "error"
    /\ (pc = "done" /\ command # "build") => child # <<>>

\* C9 as stated: the launched process's PYTHONPATH is the invoker's value
\* with the three build directories put in front of it.
C9_Original ==
    /\ LaunchedAfterBuildAndAwaited
    /\ child # <<>> => child[1].env["PYTHONPATH"] = ThreeLibDirs \o InvokerPath

\* C9, amended: run_build / testdrive launches mypaint.py only after the
\* full build returned, waits for it, fails when it exits non-zero, and
\* gives it the invoker's environment with PYTHONPATH set to exactly the
\* absolute build_lib, build_purelib and build_platlib, in that order; the
\* invoker's own PYTHONPATH is not carried over.
C9_PythonPathReplaced ==
    /\ LaunchedAfterBuildAndAwaited
    /\ child # <<>> => child[1].env["PYTHONPATH"] = ThreeLibDirs

\* the launched process failed, and the invoker had a PYTHONPATH of its own
C9_Witness ==
    /\ child # <<>>
    /\ InvokerPath # <<>>
    /\ child[1].rc = "1"
    /\ pc = "error"

----------------------------------------------------------------------------
(* What the claims say of the script installer *)

Call == last[1]

PySuffix == <<".", "p", "y">>

HasPySuffix(name) ==
    /\ Len(name) >= 3
    /\ name[Len(name) - 2] = "."
    /\ name[Len(name) - 1] = "p"
    /\ name[Len(name)] = "y"

Stripped == Call.targ \o PySuffix = Call.src
Kept == Call.targ = Call.src

\* C2 as stated: the suffix goes whenever MSYSTEM is absent, and stays on
\* win32 with MSYSTEM present.
C2_Original ==
    last # <<>> =>
        /\ (HasPySuffix(Call.src) /\ ~msystem) => Stripped
        /\ (HasPySuffix(Call.src) /\ platform[1] = "win32" /\ msystem) => Kept
        /\ ~HasPySuffix(Call.src) => Kept

\* C2, amended: for a base name ending in .py the installed name keeps the
\* suffix exactly when the platform is win32 and MSYSTEM is absent, and
\* drops it in every other case (win32 with MSYSTEM present, and every
\* other platform); a base name not ending in .py is never changed.
C2_SuffixKeptOnlyOnWin32WithoutMarker ==
    last # <<>> =>
        /\ (HasPySuffix(Call.src) /\ platform[1] = "win32" /\ ~msystem) => Kept
        /\ (HasPySuffix(Call.src) /\ ~(platform[1] = "win32" /\ ~msystem))
              => Stripped
        /\ ~HasPySuffix(Call.src) => Kept

\* a .py script installed on win32 with MSYSTEM set
C2_Witness ==
    /\ last # <<>>
    /\ HasPySuffix(Call.src)
    /\ platform[1] = "win32"
    /\ msystem
    /\ Stripped

IsDirective(line) == Len(line) >= 2 /\ line[1] = "#" /\ line[2] = "!"

TrailingSpaces(line) ==
    Cardinality({i \in 1..Len(line) : \A j \in i..Len(line) : line[j] = " "})

\* the line without its trailing white space
Trimmed(line) == [i \in 1..(Len(line) - TrailingSpaces(line)) |-> line[i]]

Hdr == header_of(Call.src)

\* the source's lines past the first
AfterFirst(lines) == [i \in 1..(Len(lines) - 1) |-> lines[i + 1]]

\* C3 as stated: directive, header, then the remaining lines verbatim; or
\* header, first line, then the remaining lines verbatim.
C3_Original ==
    (last # <<>> /\ Call.wrote) =>
        LET src_lines == Call.lines
        IN  IF src_lines # <<>> /\ IsDirective(src_lines[1])
            THEN Call.out = <<src_lines[1]>> \o Hdr \o AfterFirst(src_lines)
            ELSE Call.out = Hdr \o src_lines

\* C3, amended: every line is written with its trailing white space
\* removed. With a directive first, the installed file is the directive,
\* the header block, then the remaining lines in order; otherwise it is
\* the header block, the first line (an empty line when the source is
\* empty), then the remaining lines in order. No line is added, lost or
\* changed other than by that trimming.
C3_HeaderInjectedLinesTrimmed ==
    (last # <<>> /\ Call.wrote) =>
        LET src_lines == Call.lines
            first == IF src_lines = <<>> THEN <<>> ELSE Trimmed(src_lines[1])
            rest == [i \in 1..(Len(src_lines) - 1) |-> Trimmed(src_lines[i + 1])]
        IN  /\ IsDirective(first) => Call.out = <<first>> \o Hdr \o rest
            /\ ~IsDirective(first) => Call.out = Hdr \o <<first>> \o rest
            /\ Len(Call.out) = Len(Hdr) + 1 + Len(rest)
            /\ Hdr[3] = <<"# ***DO NOT EDIT THIS FILE***: edit ">>
                            \o Call.src \o <<" instead.">>

\* a script with a directive and a later line that ends in white space
C3_Witness ==
    /\ last # <<>>
    /\ Call.wrote
    /\ Len(Call.lines) >= 2
    /\ IsDirective(Call.lines[1])
    /\ TrailingSpaces(Call.lines[2]) > 0
    /\ Call.lines[2] # Call.out[Len(Call.out)]

Bit(n, k) == (n \div (2 ^ k)) % 2

\* C10: the mode is changed exactly when the run is not a dry run, the OS
\* is POSIX and the source's first line is a directive; the new mode is the
\* old permission bits (the low twelve) with r and x added for owner, group
\* and other, so no permission bit is cleared; otherwise the mode is as it
\* was.
C10_ModeAddsReadExecute ==
    last # <<>> =>
        /\ Call.chmod <=>
              /\ ~dry_run
              /\ platform[2] = "posix"
              /\ Call.lines # <<>>
              /\ IsDirective(Call.lines[1])
        /\ Call.chmod =>
              /\ \A k \in 0..11 :
                    Bit(Call.mode, k) = 1 <=>
                        (Bit(Call.old_mode, k) = 1 \/ k \in {0, 2, 3, 5, 6, 8})
              /\ Call.mode < 2 ^ 12
        /\ ~Call.chmod => Call.mode = Call.old_mode

\* a set-uid, owner-only file that got r-x for all and kept its other bits
C10_Witness ==
    /\ last # <<>>
    /\ Call.chmod
    /\ Bit(Call.old_mode, 11) = 1
    /\ Bit(Call.old_mode, 2) = 0
    /\ Bit(Call.mode, 11) = 1
    /\ Bit(Call.mode, 2) = 1

----------------------------------------------------------------------------
(* What the claims say of the translation compiler *)

\* the target is absent, or older than its source
Stale(lang) == lang \notin targ_exists \/ targ_mtime[lang] < src_mtime[lang]

CatalogEntry(lang) ==
    << <<"locale", lang, "LC_MESSAGES">>,
       << <<"build", "temp", "locale", lang, "LC_MESSAGES", "mypaint.mo">> >> >>

\* this step is the pass of run()'s loop for lang
IsPassFor(lang) ==
    /\ pc = "build_translations"
    /\ ti <= Len(po_files)
    /\ po_files[ti] = lang
    /\ (ti' = ti + 1 \/ pc' # pc)

C4_Step ==
    \A lang \in Langs :
        /\ (IsPassFor(lang) /\ ~dry_run) =>
              /\ msgfmt_calls'[lang] =
                    msgfmt_calls[lang] + (IF Stale(lang) THEN 1 ELSE 0)
              /\ ti' = ti + 1 =>
                    data_files' = Append(data_files, CatalogEntry(lang))
              /\ lang \in fresh =>
                    /\ msgfmt_calls'[lang] = msgfmt_calls[lang]
                    /\ data_files' = Append(data_files, CatalogEntry(lang))
        /\ (pc = "build_translations" /\ ~IsPassFor(lang)) =>
              msgfmt_calls'[lang] = msgfmt_calls[lang]
        /\ msgfmt_calls[lang] <= 1

\* C4: in every run that is not a dry run, the pass for a language invokes
\* msgfmt exactly once if its target is absent or older than its source and
\* not at all if the target exists and is at least as new; no other step
\* of the run invokes it. A language a finished pass has handled, and whose
\* source was not modified since, is passed without msgfmt and is still
\* registered under locale/<lang>/LC_MESSAGES.
C4_MsgfmtOnlyWhenStale == [][C4_Step]_vars

\* a second run has ended without msgfmt for a catalog the run before
\* compiled, and has registered it
C4_Witness ==
    /\ pc = "done"
    /\ ~dry_run
    /\ runs = 2
    /\ \E lang \in Langs :
        /\ prev_calls[lang] = 1
        /\ msgfmt_calls[lang] = 0
        /\ lang \in fresh
        /\ \E i \in 1..Len(data_files) : data_files[i] = CatalogEntry(lang)

\* C5: a dry run never invokes msgfmt, creates no directory and no target,
\* adds nothing to data_files and never fails, whatever state the targets
\* are in.
C5_DryRunHasNoEffect ==
    dry_run =>
        /\ \A lang \in Langs : msgfmt_calls[lang] = 0
        /\ made_dirs = {}
        /\ written = {}
        /\ data_files = SetupDataFiles
        /\ pc \notin {"error", "assert_failed"}

\* a dry run has ended that met an absent target and an up-to-date one
C5_Witness ==
    /\ dry_run
    /\ pc = "done"
    /\ \E lang \in Langs : lang \notin targ_exists
    /\ \E lang \in Langs :
          lang \in targ_exists /\ targ_mtime[lang] >= src_mtime[lang]

====
